---- MODULE Spec2Model ----
(***************************************************************************)
(* chatbi (src/app.py): the query-to-insight pipeline of a Streamlit app.   *)
(* Two state machines share this module:                                   *)
(*   SpecRetry  one call of safe_generate_content against a scripted       *)
(*              model gateway (the retry/backoff loop, attempt by attempt);*)
(*   Spec       the session: conversation history, draft, interrupt flag   *)
(*              and the stages of the turn pipeline;                       *)
(*   SpecPure   the pure helpers analyze_time_structure and                *)
(*              normalize_result applied to inputs drawn from bounded sets. *)
(***************************************************************************)
EXTENDS Integers, Sequences, FiniteSets, TLC

VARIABLES
    \* ---- one call of safe_generate_content (SpecRetry) ----
    gw_script,      \* what the gateway does on its 1st, 2nd, ... invocation
    rt_pc,          \* "idle" | "try" | "sleep" | "returned" | "returned_none" | "raised"
    rt_i,           \* the loop variable i of `for i in range(retries)`
    rt_attempts,    \* number of client.models.generate_content invocations
    rt_sleeps,      \* the arguments of time.sleep, in order
    rt_err          \* the exception raised to the caller ("" when none)

VARIABLES
    \* ---- st.session_state (lines 363-368) ----
    scope,              \* "turn" | "session": which bounds the behaviour explores
    messages,           \* the conversation history
    last_query_draft,   \* the draft offered for editing after an abort
    is_interrupted,     \* the interrupt flag
    \* ---- the script run that is inside the pipeline (lines 487-706) ----
    pc,             \* "idle" | "route" | "simple" | "plan" | "angle_exec" |
                    \* "angle_narrate" | "synthesize"
    start_len,      \* len(messages) when the pipeline started
    router_text,    \* router_resp.text, while it is live (lines 509-513)
    intent_type,    \* line 498 / 512
    simple_json,    \* the simple-mode synthesis response ("none" before it)
    plan_json,      \* parse_response's second result ([kind |-> "unset"] before it)
    angle_i,        \* 1-based position of the angle loop (0 outside it)
    last_exec,      \* the latest exec(): program, extracted value (cleared once
                    \* the value is in an angle record or the narration failed)
    angles_data,    \* line 623
    angle_log,      \* what became of each angle processed so far, in order
    calls,          \* the safe_generate_content calls of this pipeline run
    n_execs,        \* number of exec() invocations of this pipeline run
    final_findings, \* the angles all_findings (line 683) was built from
    outcome,        \* how the latest pipeline run ended ("none", "running", ...)
    sys_error,      \* the exception shown by line 704 ("" when none)
    history_context_str,    \* line 489
    after_abort,    \* the operations an aborted run still started after the click
    df_obj          \* the dataset object of the script run: as loaded, or mutated

VARIABLES
    \* ---- the dataset and its time structure (lines 371-374) ----
    df,             \* the loaded dataset, by its period column
    time_context,   \* analyze_time_structure(df)
    \* ---- one application of normalize_result (SpecPure) ----
    nr_res,         \* the argument res
    nr_out          \* the value returned

retryVars == <<gw_script, rt_pc, rt_i, rt_attempts, rt_sleeps, rt_err>>

sessionVars == <<scope, messages, last_query_draft, is_interrupted>>

turnVars == <<pc, start_len, router_text, intent_type, simple_json, plan_json,
              angle_i, last_exec, angles_data, angle_log, calls, n_execs,
              final_findings, outcome, sys_error, history_context_str, after_abort,
              df_obj>>

dataVars == <<df, time_context>>

normVars == <<nr_res, nr_out>>

vars == <<retryVars, sessionVars, turnVars, dataVars, normVars>>

-----------------------------------------------------------------------------
(* safe_generate_content, src/app.py:56-73                                  *)

retries == 6
base_delay == 10

\* The messages str(e) of the errors the gateway can raise.
ErrorStrs == {"429 Too Many Requests", "RESOURCE_EXHAUSTED", "503 Service Unavailable"}

\* One invocation of the gateway either answers ("ok") or raises an error.
GatewayOutcomes == {"ok"} \cup ErrorStrs

\* Python's `token in error_str` on the messages above.
Contains(error_str, token) ==
    CASE token = "429" -> error_str = "429 Too Many Requests"
      [] token = "RESOURCE_EXHAUSTED" -> error_str = "RESOURCE_EXHAUSTED"
      [] OTHER -> FALSE

\* Mutant of IsRateLimit: every error is taken for a rate-limit error.
IsRateLimitAnyError(error_str) == TRUE

\* line 67
IsRateLimit(error_str) ==
    Contains(error_str, "429") \/ Contains(error_str, "RESOURCE_EXHAUSTED")

\* Mutant of may_retry: the last attempt is retried as well (off by one).
may_retry_off_by_one(i) == i < retries

\* line 68
may_retry(i) == i < retries - 1

\* Mutant of wait_time: the exponent is one too large.
wait_time_shifted(i) == base_delay * (2 ^ (i + 1))

\* line 69
wait_time(i) == base_delay * (2 ^ i)

RECURSIVE SumSeq(_)
SumSeq(s) == IF s = <<>> THEN 0 ELSE Head(s) + SumSeq(Tail(s))

\* Gateway scripts: retries + 1 outcomes, so that an attempt past the
\* ceiling would be visible.
GatewayScripts == [1..(retries + 1) -> GatewayOutcomes]

RetryInit ==
    /\ gw_script \in GatewayScripts
    /\ rt_pc = "try"
    /\ rt_i = 0
    /\ rt_attempts = 0
    /\ rt_sleeps = <<>>
    /\ rt_err = ""

\* lines 58-73 up to the sleep: one iteration's try/except
Attempt ==
    /\ rt_pc = "try"
    /\ rt_i < retries
    /\ LET o == gw_script[rt_attempts + 1] IN
       /\ rt_attempts' = rt_attempts + 1
       /\ IF o = "ok"
          THEN /\ rt_pc' = "returned"                       \* line 60
               /\ rt_err' = rt_err
          ELSE IF IsRateLimit(o) /\ may_retry(rt_i)         \* lines 67-68
          THEN /\ rt_pc' = "sleep"
               /\ rt_err' = rt_err
          ELSE /\ rt_pc' = "raised"                         \* line 73
               /\ rt_err' = o
    /\ UNCHANGED <<gw_script, rt_i, rt_sleeps, sessionVars, turnVars, dataVars, normVars>>

\* lines 69-72: time.sleep(wait_time); continue (the loop head then either
\* starts iteration i+1 or, the range exhausted, falls out and returns None)
Backoff ==
    /\ rt_pc = "sleep"
    /\ rt_sleeps' = Append(rt_sleeps, wait_time(rt_i))
    /\ rt_i' = rt_i + 1
    /\ rt_pc' = IF rt_i + 1 < retries THEN "try" ELSE "returned_none"
    /\ UNCHANGED <<gw_script, rt_attempts, rt_err, sessionVars, turnVars, dataVars, normVars>>


-----------------------------------------------------------------------------
(* safe_generate_content as the pipeline sees it: the loop of lines 58-73   *)
(* run to its end against a gateway script, from iteration i on.            *)

RECURSIVE sgc_from(_, _)
sgc_from(script, i) ==
    IF ~(i < retries) THEN [kind |-> "returned_none", err |-> ""]
    ELSE LET o == script[i + 1] IN
         IF o = "ok" THEN [kind |-> "returned", err |-> ""]
         ELSE IF IsRateLimit(o) /\ may_retry(i) THEN sgc_from(script, i + 1)
         ELSE [kind |-> "raised", err |-> o]

safe_generate_content(script) == sgc_from(script, 0)

\* The gateway fails k times with error e, then answers.
FailThenOk(k, e) == [j \in 1..(retries + 1) |-> IF j <= k THEN e ELSE "ok"]

\* The gateway behaviours the pipeline's calls are run against: answers at
\* once, answers after two rate-limit errors, is rate-limited throughout,
\* fails with another error.
PipelineScripts ==
    { FailThenOk(0, "429 Too Many Requests"),
      FailThenOk(2, "429 Too Many Requests"),
      FailThenOk(retries + 1, "RESOURCE_EXHAUSTED"),
      FailThenOk(1, "503 Service Unavailable") }

\* What a caller of safe_generate_content(...).text gets: the response, or
\* the exception (a None return has no .text).
CallResult(script) ==
    LET r == safe_generate_content(script) IN
    CASE r.kind = "returned" -> [ok |-> TRUE, err |-> ""]
      [] r.kind = "raised" -> [ok |-> FALSE, err |-> r.err]
      [] OTHER -> [ok |-> FALSE, err |-> "AttributeError"]

-----------------------------------------------------------------------------
(* The dataset's time structure: analyze_time_structure, lines 130-167      *)

\* Bounds: a period column holds quarters of the YearSpan years that end
\* with LastYear, and possibly a missing value.
LastYear == 2024
YearSpan == 3

Years == (LastYear - YearSpan + 1)..LastYear

\* str() of a period value: "<year>Q<q>", e.g. "2024Q1" ...
Quarter(y, q) == [year |-> y, q |-> q]

\* ... or "nan", the text of a missing value
NaNLabel == [year |-> 0, q |-> 0]

QuarterLabels == {Quarter(y, q) : y \in Years, q \in 1..4}

PeriodLabels == QuarterLabels \cup {NaNLabel}

\* Python's order on those strings: digit by digit, a digit before a letter
StrLess(a, b) ==
    IF a = NaNLabel THEN FALSE
    ELSE IF b = NaNLabel THEN TRUE
    ELSE a.year < b.year \/ (a.year = b.year /\ a.q < b.q)

\* line 138: sorted(...) of the distinct values
RECURSIVE sorted(_)
sorted(S) ==
    IF S = {} THEN <<>>
    ELSE LET m == CHOOSE x \in S : \A y \in S \ {x} : StrLess(x, y) IN
         <<m>> \o sorted(S \ {m})

\* A dataset, by what analyze_time_structure reads of it: whether some
\* column passes the test of lines 133-135 ("period_column"), no column name
\* holds a token ("no_candidate"), or the named column's first value is not
\* quarter-like ("not_quarter_like"); and the values of the period column.
Dataset(kind, periods) == [kind |-> kind, periods |-> periods]

\* lines 131-136: time_col is set
detect_time_col(d) == d.kind = "period_column"

\* Mutant of mat_list: the first four labels are taken.
mat_list_first_four(sorted_periods) ==
    IF Len(sorted_periods) >= 4 THEN SubSeq(sorted_periods, 1, 4) ELSE sorted_periods

\* line 141
mat_list(sorted_periods) ==
    IF Len(sorted_periods) >= 4
    THEN SubSeq(sorted_periods, Len(sorted_periods) - 3, Len(sorted_periods))
    ELSE sorted_periods

\* Mutant of mat_list_prior: below eight labels there is no prior window.
mat_list_prior_needs_eight(sorted_periods) ==
    IF Len(sorted_periods) >= 8
    THEN SubSeq(sorted_periods, Len(sorted_periods) - 7, Len(sorted_periods) - 4)
    ELSE <<>>

\* lines 143-147
mat_list_prior(sorted_periods) ==
    IF Len(sorted_periods) >= 8
    THEN SubSeq(sorted_periods, Len(sorted_periods) - 7, Len(sorted_periods) - 4)
    ELSE IF Len(sorted_periods) >= 4
    THEN SubSeq(sorted_periods, 1, Len(sorted_periods) - 4)
    ELSE <<>>

\* lines 142-150
is_mat_complete(sorted_periods) == Len(sorted_periods) >= 8

\* line 153: re.search(r'(\d{4})', str(max_q))
year_match(max_q) ==
    IF max_q = NaNLabel THEN [found |-> FALSE, year |-> 0]
    ELSE [found |-> TRUE, year |-> max_q.year]

\* `curr_year in str(p)`
contains_year(p, curr_year) == p # NaNLabel /\ p.year = curr_year

\* str(p).replace(curr_year, prev_year)
replace_year(p, curr_year, prev_year) ==
    IF contains_year(p, curr_year) THEN Quarter(prev_year, p.q) ELSE p

\* line 158
ytd_list(sorted_periods, curr_year) ==
    LET in_year(p) == contains_year(p, curr_year) IN
    SelectSeq(sorted_periods, in_year)

\* line 159
expected_priors(ytd, curr_year, prev_year) ==
    [j \in 1..Len(ytd) |-> replace_year(ytd[j], curr_year, prev_year)]

\* Mutant of ytd_list_prior: the expected labels are taken as they are.
ytd_list_prior_unfiltered(sorted_periods, expected) == expected

\* line 160
ytd_list_prior(sorted_periods, expected) ==
    LET is_expected(p) == \E j \in 1..Len(expected) : expected[j] = p IN
    SelectSeq(sorted_periods, is_expected)

\* What line 374 binds to time_context: the windows, or the error value.
TimeContext(kind, all_periods, mat, mat_prior, complete, ytd, ytd_prior) ==
    [kind |-> kind, all_periods |-> all_periods, mat_list |-> mat,
     mat_list_prior |-> mat_prior, is_mat_complete |-> complete,
     ytd_list |-> ytd, ytd_list_prior |-> ytd_prior]

\* line 167: {"error": ...}
ErrorContext == TimeContext("error", <<>>, <<>>, <<>>, FALSE, <<>>, <<>>)

\* time_context before line 374 has run
UnsetContext == TimeContext("unset", <<>>, <<>>, <<>>, FALSE, <<>>, <<>>)

\* lines 130-167
analyze_time_structure(d) ==
    IF ~detect_time_col(d) THEN ErrorContext
    ELSE LET sorted_periods == sorted(d.periods)
             max_q == sorted_periods[Len(sorted_periods)]
             ym == year_match(max_q)
             ytd == IF ym.found THEN ytd_list(sorted_periods, ym.year) ELSE <<>>
             ytd_prior ==
                 IF ym.found
                 THEN ytd_list_prior(sorted_periods,
                                     expected_priors(ytd, ym.year, ym.year - 1))
                 ELSE <<>>
         IN TimeContext("windows", sorted_periods, mat_list(sorted_periods),
                        mat_list_prior(sorted_periods),
                        is_mat_complete(sorted_periods), ytd, ytd_prior)

\* The datasets analyze_time_structure is applied to: every period column
\* over PeriodLabels that holds at least one quarter (the first row's value
\* is quarter-like), and the datasets without a period column.
TimeDatasets ==
    { Dataset("period_column", P) :
        P \in {Q \in SUBSET PeriodLabels : Q \cap QuarterLabels # {}} }
    \cup { Dataset("no_candidate", {}), Dataset("not_quarter_like", {}) }

\* The datasets the sessions run on: the quarters of the last two years,
\* and a dataset without a period column.
SessionDatasets ==
    { Dataset("period_column",
              {Quarter(y, q) : y \in {LastYear - 1, LastYear}, q \in 1..4}),
      Dataset("no_candidate", {}) }

\* line 374, as one step of SpecPure
AnalyzeTime ==
    /\ time_context = UnsetContext
    /\ time_context' = analyze_time_structure(df)
    /\ UNCHANGED <<df, normVars, retryVars, sessionVars, turnVars>>

-----------------------------------------------------------------------------
(* The intent router's label, lines 509-513                                 *)

\* The texts the router model can answer with.
RouterTexts ==
    { "{type: simple}", "{type: analysis}", "{type: irrelevant}",
      "{type: chitchat}", "{}", "[]", "not json" }

\* json.loads on those texts.
json_loads(text) ==
    CASE text = "not json" -> [ok |-> FALSE, kind |-> "", has_type |-> FALSE, type |-> ""]
      [] text = "[]" -> [ok |-> TRUE, kind |-> "list", has_type |-> FALSE, type |-> ""]
      [] text = "{}" -> [ok |-> TRUE, kind |-> "dict", has_type |-> FALSE, type |-> ""]
      [] text = "{type: simple}" -> [ok |-> TRUE, kind |-> "dict", has_type |-> TRUE, type |-> "simple"]
      [] text = "{type: analysis}" -> [ok |-> TRUE, kind |-> "dict", has_type |-> TRUE, type |-> "analysis"]
      [] text = "{type: irrelevant}" -> [ok |-> TRUE, kind |-> "dict", has_type |-> TRUE, type |-> "irrelevant"]
      [] OTHER -> [ok |-> TRUE, kind |-> "dict", has_type |-> TRUE, type |-> "chitchat"]

\* Mutant of route_intent: a failed parse drops the query as irrelevant.
route_intent_fail_closed(text) ==
    LET j == json_loads(text) IN
    IF j.ok /\ j.kind = "dict" /\ j.has_type THEN j.type ELSE "irrelevant"

\* lines 512-513: json.loads(...).get('type', 'analysis'), any exception
\* (JSONDecodeError, AttributeError of a non-dict) giving 'analysis'
route_intent(text) ==
    LET j == json_loads(text) IN
    IF ~j.ok THEN "analysis"
    ELSE IF j.kind # "dict" THEN "analysis"
    ELSE IF j.has_type THEN j.type
    ELSE "analysis"

-----------------------------------------------------------------------------
(* The analysis plan, lines 215-228 and 616-619                             *)

\* Bounds.  A "turn" behaviour explores one user message per session (Reset
\* starts the next session) with plans of up to MaxAngles angles; a
\* "session" behaviour explores histories of up to MaxUserMsgs user messages
\* with plans of up to SessionAngles angles and the programs SessionPrograms.
MaxAngles == 3
SessionAngles == 1
MaxUserMsgs == 2

AngleBudget == IF scope = "turn" THEN MaxAngles ELSE SessionAngles
UserBudget == IF scope = "turn" THEN 1 ELSE MaxUserMsgs

\* The texts the planning model can answer with: prose without braces, a
\* braced text that is no JSON, the empty object, an object without
\* 'angles', an object whose 'angles' lists n angles.
PlanTexts ==
    { [form |-> f, n |-> 0] : f \in {"prose", "malformed", "empty_object", "no_angles"} }
    \cup { [form |-> "angles", n |-> k] : k \in 0..AngleBudget }

\* parse_response(text)[1]: None, or the dict parsed between the first '{'
\* and the last '}'.
parse_response(text) ==
    CASE text.form \in {"prose", "malformed"} ->
            [kind |-> "None", empty |-> TRUE, has_angles |-> FALSE, n |-> 0]
      [] text.form = "empty_object" ->
            [kind |-> "dict", empty |-> TRUE, has_angles |-> FALSE, n |-> 0]
      [] text.form = "no_angles" ->
            [kind |-> "dict", empty |-> FALSE, has_angles |-> FALSE, n |-> 0]
      [] OTHER ->
            [kind |-> "dict", empty |-> FALSE, has_angles |-> TRUE, n |-> text.n]

UnsetPlan == [kind |-> "unset", empty |-> TRUE, has_angles |-> FALSE, n |-> 0]

\* Mutant of plan_guard: only the parse is checked, not the 'angles' key.
plan_guard_parse_only(pj) == pj.kind = "dict" /\ ~pj.empty

\* line 619: `plan_json and 'angles' in plan_json`
plan_guard(pj) == pj.kind = "dict" /\ ~pj.empty /\ pj.has_angles

-----------------------------------------------------------------------------
(* Execution namespaces, lines 552-566 and 638-652                          *)

\* Values bound in a namespace.  A frame is a pandas DataFrame: "DF" is the
\* dataset object itself, "T" and "R" are tables a program computed.
\* A table has a shape, rows x cols; a series has a length (rows); a dict
\* and a list have items.
NoneV == [ty |-> "none", id |-> "", items |-> <<>>, rows |-> 0, cols |-> 0]
Table(id, rows, cols) ==
    [ty |-> "frame", id |-> id, items |-> <<>>, rows |-> rows, cols |-> cols]
Frame(id) == Table(id, 2, 2)
Series(n) == [ty |-> "series", id |-> "", items |-> <<>>, rows |-> n, cols |-> 1]
Dict(items) == [ty |-> "dict", id |-> "", items |-> items, rows |-> 0, cols |-> 0]
ListV(items) == [ty |-> "list", id |-> "", items |-> items, rows |-> 0, cols |-> 0]
Other(id) == [ty |-> "other", id |-> id, items |-> <<>>, rows |-> 0, cols |-> 0]

Bind(k, v) == [k |-> k, v |-> v]

\* The bindings both namespaces start with, in insertion order, up to 'np'.
context_head ==
    << Bind("df", Frame("DF")), Bind("data", Frame("DF")),
       Bind("df_market", Frame("DF")), Bind("df_mat", Frame("DF")),
       Bind("df_ytd", Frame("DF")),
       Bind("pd", Other("module")), Bind("np", Other("module")) >>

\* Mutant of tc_get: time_context[key], which raises on the error value.
tc_subscript(tc, key) ==
    IF tc.kind = "windows"
    THEN [exc |-> "", v |-> ListV(tc[key])]
    ELSE [exc |-> "KeyError: time window", v |-> NoneV]

\* time_context.get(key) for a window key: the list, None on the error value
tc_get(tc, key) ==
    [exc |-> "", v |-> IF tc.kind = "windows" THEN ListV(tc[key]) ELSE NoneV]

\* lines 515-519: the windows of the turn, and the exception of the lookups
lookup_windows(tc) ==
    LET keys == <<"mat_list", "mat_list_prior", "ytd_list", "ytd_list_prior">>
        got == [j \in 1..4 |-> tc_get(tc, keys[j])]
        failed == {j \in 1..4 : got[j].exc # ""}
    IN [exc |-> IF failed = {} THEN ""
                ELSE got[CHOOSE j \in failed : \A h \in failed : j <= h].exc,
        mat_list |-> got[1].v, mat_list_prior |-> got[2].v,
        ytd_list |-> got[3].v, ytd_list_prior |-> got[4].v]

\* ... and from 'current_mat' on.
context_windows ==
    LET w == lookup_windows(time_context) IN
    << Bind("current_mat", w.mat_list), Bind("mat_list", w.mat_list),
       Bind("prior_mat", w.mat_list_prior),
       Bind("mat_list_prior", w.mat_list_prior),
       Bind("ytd_list", w.ytd_list),
       Bind("ytd_list_prior", w.ytd_list_prior) >>

\* lines 552-558
simple_context ==
    context_head \o << Bind("results", Dict(<<>>)), Bind("result", NoneV) >>
    \o context_windows

\* lines 638-644
angle_context == context_head \o << Bind("result", NoneV) >> \o context_windows

HasKey(ns, key) == \E j \in 1..Len(ns) : ns[j].k = key

\* dict.get(key): the value, None when the key is absent
ns_get(ns, key) ==
    IF HasKey(ns, key)
    THEN ns[CHOOSE j \in 1..Len(ns) : ns[j].k = key].v
    ELSE NoneV

\* ns[key] = v: in place when the key exists, appended otherwise
ns_set(ns, key, v) ==
    IF HasKey(ns, key)
    THEN [j \in 1..Len(ns) |-> IF ns[j].k = key THEN Bind(key, v) ELSE ns[j]]
    ELSE Append(ns, Bind(key, v))

\* The generated programs, by what they do to their namespace.
Programs ==
    { "set_result",       \* result = <a table>
      "set_results",      \* results = {"t1": <a table>}
      "set_both",         \* results = {"t1": <a table>}; result = <another>
      "bind_table",       \* tmp = <a table>; neither result nor results
      "no_output",        \* binds nothing
      "drop_aliases",     \* data = df_market = df_mat = df_ytd = None
      "mutate_dataset",   \* df['flag'] = 1: a column added in place
      "raise_key_error" } \* df['no such column']

\* The programs a "session" behaviour explores: one that sets `result`, one
\* that binds nothing, one that raises.
SessionPrograms == {"set_result", "no_output", "raise_key_error"}

ProgramBudget == IF scope = "turn" THEN Programs ELSE SessionPrograms

\* exec(code, ns): the exception raised ("" when none) and the namespace
\* afterwards (exec itself binds __builtins__).
exec_program(prog, ns0) ==
    LET ns == Append(ns0, Bind("__builtins__", Other("module"))) IN
    CASE prog = "set_result" ->
            [exc |-> "", ns |-> ns_set(ns, "result", Frame("T"))]
      [] prog = "set_results" ->
            [exc |-> "", ns |-> ns_set(ns, "results",
                                       Dict(<<[name |-> "t1", value |-> Frame("T")]>>))]
      [] prog = "set_both" ->
            [exc |-> "", ns |-> ns_set(ns_set(ns, "results",
                                       Dict(<<[name |-> "t1", value |-> Frame("T")]>>)),
                                       "result", Frame("R"))]
      [] prog = "bind_table" ->
            [exc |-> "", ns |-> ns_set(ns, "tmp", Frame("T"))]
      [] prog = "no_output" ->
            [exc |-> "", ns |-> ns]
      [] prog = "drop_aliases" ->
            [exc |-> "", ns |-> ns_set(ns_set(ns_set(ns_set(ns,
                                    "data", NoneV), "df_market", NoneV),
                                    "df_mat", NoneV), "df_ytd", NoneV)]
      [] prog = "mutate_dataset" ->
            [exc |-> "", ns |-> ns]
      [] OTHER ->
            [exc |-> "KeyError", ns |-> ns]

\* exec(code, ns) on the dataset object the namespace refers to (the values
\* of 'df', 'data', 'df_market', 'df_mat', 'df_ytd' are one object)
exec_dataset(prog, obj) == IF prog = "mutate_dataset" THEN "mutated" ELSE obj

\* isinstance(v, pd.DataFrame)
IsDataFrame(v) == v.ty = "frame"

\* bool(v) of the values above
Truthy(v) ==
    CASE v.ty = "none" -> FALSE
      [] v.ty \in {"dict", "list"} -> v.items # <<>>
      [] OTHER -> TRUE

\* Bound: tables, series, mappings and lists have up to MaxDim rows,
\* columns or items.
MaxDim == 5

\* Mutant of normalize_result: a table argument is returned transposed.
normalize_result_transposes(res) ==
    CASE res.ty = "frame" -> Table(res.id, res.cols, res.rows)
      [] res.ty = "series" -> Table("to_frame", res.rows, 1)
      [] res.ty = "dict" -> Table("items", Len(res.items), 2)
      [] res.ty = "list" -> Table("wrapped", 1, Len(res.items))
      [] OTHER -> Table("wrapped", 1, 1)

\* Mutant of normalize_result: every value is wrapped, a table included.
normalize_result_wraps_tables(res) == Table("wrapped", 1, 1)

\* normalize_result, lines 185-192: a DataFrame passes through (186); a
\* Series becomes a one-column table of its length (187); a dict becomes a
\* two-column table with a row per item (189); anything else becomes the
\* single row of pd.DataFrame([res]), with a column per element when res is
\* a list and one column otherwise (191)
normalize_result(res) ==
    CASE IsDataFrame(res) -> res
      [] res.ty = "series" -> Table("to_frame", res.rows, 1)
      [] res.ty = "dict" -> Table("items", Len(res.items), 2)
      [] res.ty = "list" -> Table("wrapped", 1, Len(res.items))
      [] OTHER -> Table("wrapped", 1, 1)

\* The values normalize_result is applied to.
NormInputs ==
    { Table("T", r, c) : r \in 0..MaxDim, c \in 0..MaxDim }
    \cup { Series(n) : n \in 0..MaxDim }
    \cup { Dict([j \in 1..n |-> [name |-> j, value |-> Other("scalar")]]) : n \in 0..MaxDim }
    \cup { ListV([j \in 1..n |-> Other("scalar")]) : n \in 0..MaxDim }
    \cup { Other("scalar"), Other("object"), NoneV }

\* nr_out before normalize_result has returned
NotReturned == Other("not returned")

\* One application of normalize_result, as one step of SpecPure
NormalizeResult ==
    /\ nr_out = NotReturned
    /\ nr_out' = normalize_result(nr_res)
    /\ UNCHANGED <<nr_res, dataVars, retryVars, sessionVars, turnVars>>

\* lines 648-650: the first DataFrame bound under a key other than 'df',
\* in the namespace's order (None when there is none)
scan_namespace(ns) ==
    LET hits == {j \in 1..Len(ns) : IsDataFrame(ns[j].v) /\ ns[j].k # "df"} IN
    IF hits = {} THEN NoneV
    ELSE ns[CHOOSE j \in hits : \A h \in hits : j <= h].v

\* lines 647-650: execution_context['result'] after the fallback scan
angle_extract(ns) ==
    IF ns_get(ns, "result") = NoneV THEN scan_namespace(ns) ELSE ns_get(ns, "result")

\* Mutant of simple_extract: `result` is preferred to `results`.
simple_extract_result_first(ns) ==
    IF ns_get(ns, "result") # NoneV
    THEN Dict(<<[name |-> "query result", value |-> ns_get(ns, "result")]>>)
    ELSE ns_get(ns, "results")

\* lines 561-564: final_results
simple_extract(ns) ==
    LET final_results == ns_get(ns, "results") IN
    IF ~Truthy(final_results) /\ ns_get(ns, "result") # NoneV
    THEN Dict(<<[name |-> "query result", value |-> ns_get(ns, "result")]>>)
    ELSE final_results

\* line 567: {k: normalize_result(v) for k, v in final_results.items()}
format_results(final_results) ==
    [j \in 1..Len(final_results.items) |->
        [name |-> final_results.items[j].name,
         value |-> normalize_result(final_results.items[j].value)]]

-----------------------------------------------------------------------------
(* The session, lines 363-368, 387-391 and 457-493                          *)

\* What the user can type into the chat input or the edit box.
Queries == {"sales by province"}

\* q1, q2, q3 of line 460
Suggestions == {"q1 share by province", "q2 growth by product", "q3 regional performance"}

RefusalText == "sorry, the question is unrelated to the data"
NoDataText == "sorry, no valid data was extracted"
PlanFailedText == "analysis generation failed"

TextMsg(role, text) ==
    [role |-> role, type |-> "text", text |-> text, mode |-> "",
     data |-> <<>>, angles_data |-> <<>>, insight |-> <<>>]

\* lines 589-592
SimpleReport(formatted_results) ==
    [role |-> "assistant", type |-> "report_block", text |-> "", mode |-> "simple",
     data |-> formatted_results, angles_data |-> <<>>, insight |-> <<>>]

\* lines 693-699; the insight is the model's text about the findings it was
\* given, named here by the angles those findings came from
AnalysisReport(ads, findings) ==
    [role |-> "assistant", type |-> "report_block", text |-> "", mode |-> "analysis",
     data |-> <<>>, angles_data |-> ads, insight |-> findings]

NoExec == [prog |-> "", result |-> NoneV]

\* line 489: get_history_context(..., turn_limit=3)
turn_limit == 3

\* lines 112-127: the digest line of one stored message
digest_line(msg) ==
    [role |-> IF msg.role = "user" THEN "User" ELSE "AI",
     form |-> IF msg.type = "text" THEN "text" ELSE msg.mode,
     text |-> msg.text,
     findings |-> [j \in 1..Len(msg.angles_data) |->
                      [title |-> msg.angles_data[j].title,
                       explanation |-> msg.angles_data[j].explanation]],
     insight |-> msg.insight]

\* line 105: the 'no history' marker
NoHistory == [marker |-> TRUE, lines |-> <<>>]

\* history_context_str outside the pipeline
NoDigest == [marker |-> FALSE, lines |-> <<>>]

\* Mutant of get_history_context: the digest runs over the whole list, the
\* current message included.
get_history_context_with_current(msgs, limit) ==
    IF Len(msgs) <= 1 THEN NoHistory
    ELSE LET is_valid(m) == m.type \in {"text", "report_block"}
             valid_msgs == SelectSeq(msgs, is_valid)
             slice_start == IF Len(valid_msgs) - (limit * 2) > 0
                            THEN Len(valid_msgs) - (limit * 2) ELSE 0
             target_msgs == SubSeq(valid_msgs, slice_start + 1, Len(valid_msgs))
         IN [marker |-> FALSE,
             lines |-> [j \in 1..Len(target_msgs) |-> digest_line(target_msgs[j])]]

\* get_history_context, lines 104-128; the stored list is only read
get_history_context(msgs, limit) ==
    IF Len(msgs) <= 1 THEN NoHistory
    ELSE LET recent_msgs == SubSeq(msgs, 1, Len(msgs) - 1)
             is_valid(m) == m.type \in {"text", "report_block"}
             valid_msgs == SelectSeq(recent_msgs, is_valid)
             slice_start == IF Len(valid_msgs) - (limit * 2) > 0
                            THEN Len(valid_msgs) - (limit * 2) ELSE 0
             target_msgs == SubSeq(valid_msgs, slice_start + 1, Len(valid_msgs))
         IN [marker |-> FALSE,
             lines |-> [j \in 1..Len(target_msgs) |-> digest_line(target_msgs[j])]]

UserCount(msgs) == Cardinality({j \in 1..Len(msgs) : msgs[j].role = "user"})

\* Bound: the stored histories get_history_context is applied to hold up to
\* MaxHistory messages.
MaxHistory == 8

\* The messages the session stores: a question, a plain answer, a report of
\* either mode.
StoredMessages ==
    { TextMsg("user", "sales by province"),
      TextMsg("assistant", RefusalText),
      SimpleReport(<<[name |-> "query result", value |-> Frame("T")]>>),
      AnalysisReport(<<[title |-> 1, data |-> Frame("T"), explanation |-> 1]>>, <<1>>) }

\* The histories line 489 can find: the first and the last message are the
\* user's (line 487), and an answer follows a question.
DigestHistories ==
    { h \in UNION { [1..n -> StoredMessages] : n \in 1..MaxHistory } :
        /\ h[1].role = "user"
        /\ h[Len(h)].role = "user"
        /\ \A j \in 1..(Len(h) - 1) :
              h[j].role = "assistant" => h[j + 1].role = "user" }

\* line 487
pipeline_guard(msgs, interrupted) ==
    /\ msgs # <<>>
    /\ msgs[Len(msgs)].role = "user"
    /\ ~interrupted

\* The script run enters the pipeline (lines 488-498) with fresh locals.
EnterPipeline(msgs) ==
    /\ pc' = "route"
    /\ start_len' = Len(msgs)
    /\ router_text' = ""
    /\ intent_type' = "analysis"
    /\ simple_json' = "none"
    /\ plan_json' = UnsetPlan
    /\ angle_i' = 0
    /\ last_exec' = NoExec
    /\ angles_data' = <<>>
    /\ angle_log' = <<>>
    /\ calls' = <<>>
    /\ n_execs' = 0
    /\ final_findings' = <<>>
    /\ outcome' = "running"
    /\ sys_error' = ""
    /\ history_context_str' = get_history_context(msgs, turn_limit)
    /\ after_abort' = <<>>
    /\ df_obj' = "loaded"                  \* line 370: a copy per script run

\* No pipeline run yet.
PipelineIdle ==
    /\ pc = "idle"
    /\ start_len = 0
    /\ router_text = ""
    /\ intent_type = "analysis"
    /\ simple_json = "none"
    /\ plan_json = UnsetPlan
    /\ angle_i = 0
    /\ last_exec = NoExec
    /\ angles_data = <<>>
    /\ angle_log = <<>>
    /\ calls = <<>>
    /\ n_execs = 0
    /\ final_findings = <<>>
    /\ outcome = "none"
    /\ sys_error = ""
    /\ history_context_str = NoDigest
    /\ after_abort = <<>>
    /\ df_obj = "loaded"

\* lines 363-368
SessionInit ==
    /\ messages = <<>>
    /\ last_query_draft = ""
    /\ is_interrupted = FALSE
    /\ PipelineIdle

\* lines 487-489, as one step of SpecPure: the digest of the stored history
BuildDigest ==
    /\ pipeline_guard(messages, is_interrupted)
    /\ history_context_str = NoDigest
    /\ history_context_str' = get_history_context(messages, turn_limit)
    /\ UNCHANGED <<sessionVars, dataVars, normVars, retryVars,
                   pc, start_len, router_text, intent_type, simple_json,
                   plan_json, angle_i, last_exec, angles_data, angle_log,
                   calls, n_execs, final_findings, outcome, sys_error,
                   after_abort, df_obj>>

\* lines 481-484, then the rerun reaches line 487
ChatInput ==
    /\ pc = "idle"
    /\ ~is_interrupted
    /\ UserCount(messages) < UserBudget
    /\ \E query_input \in Queries :
        /\ last_query_draft' = query_input
        /\ messages' = Append(messages, TextMsg("user", query_input))
        /\ EnterPipeline(messages')
    /\ UNCHANGED <<scope, is_interrupted, retryVars, dataVars, normVars>>

\* lines 457-466, then the rerun reaches line 487
SuggestionClick ==
    /\ pc = "idle"
    /\ Len(messages) = 0
    /\ ~is_interrupted
    /\ \E q \in Suggestions :
        /\ messages' = Append(messages, TextMsg("user", q))
        /\ EnterPipeline(messages')
    /\ UNCHANGED <<scope, last_query_draft, is_interrupted, retryVars, dataVars, normVars>>

\* lines 469-478: the callback submit_edit, then the rerun
SubmitEdit ==
    /\ pc = "idle"
    /\ is_interrupted
    /\ \E new_val \in Queries \cup {"", last_query_draft} :
        IF new_val # ""
        THEN /\ UserCount(messages) < UserBudget
             /\ messages' = Append(messages, TextMsg("user", new_val))
             /\ is_interrupted' = FALSE
             /\ last_query_draft' = ""
             /\ EnterPipeline(messages')
        ELSE UNCHANGED <<messages, is_interrupted, last_query_draft, turnVars>>
    /\ UNCHANGED <<scope, retryVars, dataVars, normVars>>

\* Any other interaction reruns the script; the pipeline starts when line
\* 487 holds.
Rerun ==
    /\ pc = "idle"
    /\ pipeline_guard(messages, is_interrupted)
    /\ EnterPipeline(messages)
    /\ UNCHANGED <<sessionVars, retryVars, dataVars, normVars>>

\* What a run whose stop button was clicked while it was in `stage` still
\* starts before it ends.  The pipeline never reads the flag (lines 495-706);
\* the click ends the run at its next rendering call (st.*), so whatever
\* lies between the operation in flight and that call is still started:
\* exec of line 559 after the synthesis call of line 547, exec of line 645
\* after the pause of line 635, the final call of line 689 after the pause
\* of line 682.  Nothing is started when the operation in flight is
\* followed by a rendering call (or fails, which line 704 renders).
started_after_click(stage) ==
    CASE stage = "simple" -> {<<>>, <<"exec">>}
      [] stage = "angle_exec" -> {<<>>, <<"exec">>}
      [] stage = "synthesize" -> {<<>>, <<"final">>}
      [] OTHER -> {<<>>}

\* Mutant of Stop: the abort takes the interrupted question out of the history.
Stop_pops_question ==
    /\ pc # "idle"
    /\ is_interrupted' = TRUE
    /\ messages' = SubSeq(messages, 1, Len(messages) - 1)
    /\ after_abort' \in started_after_click(pc)
    /\ df_obj' = "loaded"
    /\ history_context_str' = NoDigest
    /\ pc' = "idle"
    /\ outcome' = "aborted"
    /\ start_len' = 0
    /\ router_text' = ""
    /\ intent_type' = "analysis"
    /\ simple_json' = "none"
    /\ plan_json' = UnsetPlan
    /\ angle_i' = 0
    /\ last_exec' = NoExec
    /\ angles_data' = <<>>
    /\ angle_log' = <<>>
    /\ calls' = <<>>
    /\ n_execs' = 0
    /\ final_findings' = <<>>
    /\ sys_error' = ""
    /\ UNCHANGED <<scope, last_query_draft, retryVars, dataVars, normVars>>

\* lines 490-493: the stop button, shown while the pipeline runs; the click
\* ends the running script, whose locals are gone, and the rerun sets the flag
Stop ==
    /\ pc # "idle"
    /\ after_abort' \in started_after_click(pc)
    /\ df_obj' = "loaded"
    /\ history_context_str' = NoDigest
    /\ is_interrupted' = TRUE
    /\ pc' = "idle"
    /\ outcome' = "aborted"
    /\ start_len' = 0
    /\ router_text' = ""
    /\ intent_type' = "analysis"
    /\ simple_json' = "none"
    /\ plan_json' = UnsetPlan
    /\ angle_i' = 0
    /\ last_exec' = NoExec
    /\ angles_data' = <<>>
    /\ angle_log' = <<>>
    /\ calls' = <<>>
    /\ n_execs' = 0
    /\ final_findings' = <<>>
    /\ sys_error' = ""
    /\ UNCHANGED <<scope, messages, last_query_draft, retryVars, dataVars, normVars>>

\* lines 387-391
Reset ==
    /\ messages' = <<>>
    /\ last_query_draft' = ""
    /\ is_interrupted' = FALSE
    /\ pc' = "idle"
    /\ start_len' = 0
    /\ router_text' = ""
    /\ intent_type' = "analysis"
    /\ simple_json' = "none"
    /\ plan_json' = UnsetPlan
    /\ angle_i' = 0
    /\ last_exec' = NoExec
    /\ angles_data' = <<>>
    /\ angle_log' = <<>>
    /\ calls' = <<>>
    /\ n_execs' = 0
    /\ final_findings' = <<>>
    /\ outcome' = "none"
    /\ sys_error' = ""
    /\ history_context_str' = NoDigest
    /\ after_abort' = <<>>
    /\ df_obj' = "loaded"                  \* line 370: a copy per script run
    /\ UNCHANGED <<scope, retryVars, dataVars, normVars>>

-----------------------------------------------------------------------------
(* The pipeline of one turn, lines 495-706                                  *)

\* The script run leaves the pipeline.
EndTurn(how, err) ==
    /\ pc' = "idle"
    /\ outcome' = how
    /\ sys_error' = err

\* Mutant of SystemError: the error is shown and the run goes on.
SystemError_keeps_running(err) ==
    /\ pc' = pc
    /\ outcome' = "system_error"
    /\ sys_error' = err

\* lines 703-704: the exception reaches the turn handler
SystemError(err) == EndTurn("system_error", err)

\* Mutant of dispatch: the 'irrelevant' branch is missing.
dispatch_without_irrelevant(intent) == IF intent = "simple" THEN "simple" ELSE "plan"

\* lines 521, 526, 598: the branch taken for an intent
dispatch(intent) ==
    IF intent = "irrelevant" THEN "refuse"
    ELSE IF intent = "simple" THEN "simple"
    ELSE "plan"

\* lines 499-523
Route ==
    /\ pc = "route"
    /\ \E script \in PipelineScripts, text \in RouterTexts :
        LET r == CallResult(script) IN
        /\ calls' = Append(calls, "router")
        /\ IF ~r.ok
           THEN /\ SystemError(r.err)
                /\ UNCHANGED <<router_text, intent_type, messages>>
           ELSE /\ router_text' = text
                /\ intent_type' = route_intent(text)
                /\ IF lookup_windows(time_context).exc # ""       \* lines 515-519
                   THEN /\ SystemError(lookup_windows(time_context).exc)
                        /\ UNCHANGED messages
                   ELSE CASE dispatch(intent_type') = "refuse" ->
                          /\ messages' = Append(messages, TextMsg("assistant", RefusalText))
                          /\ EndTurn("refusal", "")
                     [] dispatch(intent_type') = "simple" ->
                          /\ pc' = "simple"
                          /\ UNCHANGED <<messages, outcome, sys_error>>
                     [] OTHER ->
                          /\ pc' = "plan"
                          /\ UNCHANGED <<messages, outcome, sys_error>>
    /\ UNCHANGED <<scope, last_query_draft, is_interrupted, start_len, history_context_str, after_abort, df_obj, simple_json,
                   plan_json, angle_i, last_exec, angles_data, angle_log, n_execs,
                   final_findings, retryVars, dataVars, normVars>>

\* The texts the simple-mode synthesis can answer with.
SimpleTexts == {"{summary, code}", "{summary}", "not json"}

\* line 550: json.loads(simple_resp.text), by what the pipeline uses of it
simple_loads(text) ==
    CASE text = "not json" -> "invalid"
      [] text = "{summary}" -> "no_code"
      [] OTHER -> "valid"

\* Mutant of simple_failure: a missing 'code' is taken for an empty program.
simple_failure_defaults_code(sj) == IF sj = "invalid" THEN "JSONDecodeError" ELSE ""

\* lines 550 and 559: what json.loads or simple_json['code'] raises
simple_failure(sj) ==
    CASE sj = "invalid" -> "JSONDecodeError"
      [] sj = "no_code" -> "KeyError"
      [] OTHER -> ""

\* lines 527-595
SimpleMode ==
    /\ pc = "simple"
    /\ \E script \in PipelineScripts, text \in SimpleTexts, prog \in ProgramBudget :
        LET r == CallResult(script)
            run == exec_program(prog, simple_context)
            final_results == simple_extract(run.ns)
        IN
        /\ calls' = Append(calls, "simple")
        /\ CASE ~r.ok ->
                  /\ SystemError(r.err)
                  /\ UNCHANGED <<simple_json, n_execs, last_exec, messages, df_obj>>
             [] r.ok /\ simple_failure(simple_loads(text)) # "" ->   \* lines 550, 559
                  /\ simple_json' = simple_loads(text)
                  /\ SystemError(simple_failure(simple_loads(text)))
                  /\ UNCHANGED <<n_execs, last_exec, messages, df_obj>>
             [] OTHER ->
                  /\ simple_json' = simple_loads(text)
                  /\ n_execs' = n_execs + 1                  \* line 559
                  /\ df_obj' = exec_dataset(prog, df_obj)
                  /\ IF run.exc # ""
                     THEN /\ last_exec' = [prog |-> prog, result |-> NoneV]
                          /\ SystemError(run.exc)
                          /\ UNCHANGED messages
                     ELSE /\ last_exec' = [prog |-> prog, result |-> final_results]
                          /\ IF Truthy(final_results)        \* line 566
                             THEN /\ messages' = Append(messages,
                                         SimpleReport(format_results(final_results)))
                                  /\ EndTurn("simple_report", "")
                             ELSE /\ messages' = Append(messages,
                                         TextMsg("assistant", NoDataText))
                                  /\ EndTurn("no_data", "")
    /\ router_text' = ""                                     \* router_resp is dead
    /\ UNCHANGED <<scope, last_query_draft, is_interrupted, start_len,
                   history_context_str, after_abort,
                   intent_type, plan_json, angle_i, angles_data, angle_log,
                   final_findings, retryVars, dataVars, normVars>>

\* lines 599-626 and 700-702
Plan ==
    /\ pc = "plan"
    /\ \E script \in PipelineScripts, text \in PlanTexts :
        LET r == CallResult(script)
            pj == parse_response(text)
        IN
        /\ calls' = Append(calls, "plan")
        /\ CASE ~r.ok ->
                  /\ SystemError(r.err)
                  /\ UNCHANGED <<plan_json, angle_i, messages>>
             [] r.ok /\ ~plan_guard(pj) ->                   \* lines 700-702
                  /\ plan_json' = pj
                  /\ messages' = Append(messages, TextMsg("assistant", PlanFailedText))
                  /\ EndTurn("plan_failed", "")
                  /\ UNCHANGED angle_i
             [] r.ok /\ plan_guard(pj) /\ ~pj.has_angles ->  \* plan_json['angles']
                  /\ plan_json' = pj
                  /\ SystemError("KeyError")
                  /\ UNCHANGED <<angle_i, messages>>
             [] r.ok /\ plan_guard(pj) /\ pj.has_angles /\ pj.n = 0 ->
                  \* the loop body never runs and line 679 finds no record
                  /\ plan_json' = pj
                  /\ EndTurn("no_response", "")
                  /\ UNCHANGED <<angle_i, messages>>
             [] OTHER ->
                  /\ plan_json' = pj
                  /\ angle_i' = 1
                  /\ pc' = "angle_exec"
                  /\ UNCHANGED <<messages, outcome, sys_error>>
    /\ router_text' = ""                                     \* router_resp is dead
    /\ UNCHANGED <<scope, last_query_draft, is_interrupted, start_len,
                   history_context_str, after_abort, df_obj,
                   intent_type, simple_json, last_exec, angles_data, angle_log,
                   n_execs, final_findings, retryVars, dataVars, normVars>>

\* Mutant of angle_catches: only a ValueError is caught.
angle_catches_value_error_only(exc) == exc = "ValueError"

\* line 676: `except Exception` catches what a program or a model call raises
angle_catches(exc) == TRUE

\* Mutant of AfterAngle: the synthesis follows the last angle even when no
\* angle was recorded.
AfterAngle_always_synthesizes(ads) ==
    IF angle_i < plan_json.n
    THEN /\ angle_i' = angle_i + 1
         /\ pc' = "angle_exec"
         /\ UNCHANGED <<outcome, sys_error>>
    ELSE /\ pc' = "synthesize"
         /\ UNCHANGED <<angle_i, outcome, sys_error>>

\* The angle at angle_i is over (lines 626, 679): the next angle, the final
\* synthesis when some angle was recorded, or the end of the pipeline.
AfterAngle(ads) ==
    IF angle_i < plan_json.n
    THEN /\ angle_i' = angle_i + 1
         /\ pc' = "angle_exec"
         /\ UNCHANGED <<outcome, sys_error>>
    ELSE IF ads # <<>>
    THEN /\ pc' = "synthesize"
         /\ UNCHANGED <<angle_i, outcome, sys_error>>
    ELSE /\ EndTurn("no_response", "")
         /\ UNCHANGED angle_i

\* lines 637-652, 674-677
AngleExec ==
    /\ pc = "angle_exec"
    /\ \E prog \in ProgramBudget :
        LET run == exec_program(prog, angle_context)
            res == angle_extract(run.ns)
        IN
        /\ n_execs' = n_execs + 1                            \* line 645
        /\ df_obj' = exec_dataset(prog, df_obj)
        /\ CASE run.exc # "" /\ ~angle_catches(run.exc) ->
                  /\ last_exec' = [prog |-> prog, result |-> NoneV]
                  /\ SystemError(run.exc)
                  /\ UNCHANGED <<angle_i, angle_log>>
             [] run.exc # "" /\ angle_catches(run.exc) ->    \* lines 676-677
                  /\ last_exec' = [prog |-> prog, result |-> NoneV]
                  /\ angle_log' = Append(angle_log, "raised")
                  /\ AfterAngle(angles_data)
             [] run.exc = "" /\ res = NoneV ->               \* line 675
                  /\ last_exec' = [prog |-> prog, result |-> NoneV]
                  /\ angle_log' = Append(angle_log, "no_data")
                  /\ AfterAngle(angles_data)
             [] OTHER ->                                     \* line 653
                  /\ last_exec' = [prog |-> prog, result |-> normalize_result(res)]
                  /\ pc' = "angle_narrate"
                  /\ UNCHANGED <<angle_i, angle_log, outcome, sys_error>>
    /\ UNCHANGED <<sessionVars, start_len, history_context_str, after_abort,
                   router_text, intent_type, simple_json,
                   plan_json, angles_data, calls, final_findings, retryVars, dataVars, normVars>>

\* Mutant of angle_record: every record carries the first angle's title.
angle_record_first_title(i, data) == [title |-> 1, data |-> data, explanation |-> i]

\* lines 670-673: the record of angle i, its title and its narrative named
\* by the angle
angle_record(i, data) == [title |-> i, data |-> data, explanation |-> i]

\* lines 660-673, 676-677
AngleNarrate ==
    /\ pc = "angle_narrate"
    /\ \E script \in PipelineScripts :
        LET r == CallResult(script)
            ads == Append(angles_data, angle_record(angle_i, last_exec.result))
        IN
        /\ calls' = Append(calls, "mini")
        /\ last_exec' = NoExec                  \* the namespace is discarded
        /\ CASE r.ok ->
                  /\ angles_data' = ads
                  /\ angle_log' = Append(angle_log, "recorded")
                  /\ AfterAngle(ads)
             [] ~r.ok /\ angle_catches(r.err) ->
                  /\ angle_log' = Append(angle_log,
                                          IF IsRateLimit(r.err)
                                          THEN "narration_exhausted"
                                          ELSE "narration_failed")
                  /\ AfterAngle(angles_data)
                  /\ UNCHANGED angles_data
             [] OTHER ->
                  /\ SystemError(r.err)
                  /\ UNCHANGED <<angle_i, angle_log, angles_data>>
    /\ UNCHANGED <<sessionVars, start_len, history_context_str, after_abort, df_obj,
                   router_text, intent_type, simple_json,
                   plan_json, n_execs, final_findings, retryVars, dataVars, normVars>>

\* lines 679-699
Synthesize ==
    /\ pc = "synthesize"
    /\ final_findings' = [j \in 1..Len(angles_data) |-> angles_data[j].title]
    /\ \E script \in PipelineScripts :
        LET r == CallResult(script) IN
        /\ calls' = Append(calls, "final")
        /\ IF r.ok
           THEN /\ messages' = Append(messages, AnalysisReport(angles_data, final_findings'))
                /\ EndTurn("analysis_report", "")
           ELSE /\ SystemError(r.err)
                /\ UNCHANGED messages
    /\ UNCHANGED <<scope, last_query_draft, is_interrupted, start_len, history_context_str, after_abort, df_obj, router_text,
                   intent_type, simple_json, plan_json, angle_i, last_exec,
                   angles_data, angle_log, n_execs, retryVars, dataVars, normVars>>

-----------------------------------------------------------------------------

\* While the session runs, no retry machine of SpecRetry is in use.
RetryParked ==
    /\ gw_script = FailThenOk(0, "429 Too Many Requests")
    /\ rt_pc = "idle"
    /\ rt_i = 0
    /\ rt_attempts = 0
    /\ rt_sleeps = <<>>
    /\ rt_err = ""

\* lines 371-374: the dataset is loaded and its time structure analysed
DataLoaded ==
    /\ df \in SessionDatasets
    /\ time_context = analyze_time_structure(df)

\* Outside SpecPure no application of normalize_result is under way.
NormParked ==
    /\ nr_res = NoneV
    /\ nr_out = NotReturned

Init == scope = "turn" /\ SessionInit /\ DataLoaded /\ RetryParked /\ NormParked

InitSession == scope = "session" /\ SessionInit /\ DataLoaded /\ RetryParked /\ NormParked

Next ==
    \/ ChatInput
    \/ SuggestionClick
    \/ SubmitEdit
    \/ Rerun
    \/ Stop
    \/ Reset
    \/ Route
    \/ SimpleMode
    \/ Plan
    \/ AngleExec
    \/ AngleNarrate
    \/ Synthesize

Spec == Init /\ [][Next]_vars

SpecSession == InitSession /\ [][Next]_vars

RetryNext == Attempt \/ Backoff

\* One call of safe_generate_content in a fresh session, the pipeline idle.
InitRetry == RetryInit /\ scope = "turn" /\ SessionInit /\ DataLoaded /\ NormParked

SpecRetry == InitRetry /\ [][RetryNext]_vars

\* The pure helpers: analyze_time_structure applied to every dataset of
\* TimeDatasets, normalize_result to every value of NormInputs,
\* get_history_context to every history of DigestHistories.
InitPure ==
    /\ scope = "turn" /\ RetryParked
    /\ last_query_draft = "" /\ is_interrupted = FALSE /\ PipelineIdle
    /\ time_context = UnsetContext
    /\ nr_out = NotReturned
    /\ \/ df \in TimeDatasets /\ nr_res = NoneV /\ messages = <<>>
       \/ df = Dataset("no_candidate", {}) /\ nr_res \in NormInputs /\ messages = <<>>
       \/ df = Dataset("no_candidate", {}) /\ nr_res = NoneV
            /\ messages \in DigestHistories

PureNext == AnalyzeTime \/ NormalizeResult \/ BuildDigest

SpecPure == InitPure /\ [][PureNext]_vars

-----------------------------------------------------------------------------
(* Properties of safe_generate_content, checked under SpecRetry             *)

\* The message of a rate-limit error: it contains "429" or "RESOURCE_EXHAUSTED".
RateLimitMessage(e) == e \in {"429 Too Many Requests", "RESOURCE_EXHAUSTED"}

\* The message of any other error.
OtherErrorMessage(e) == e \in ErrorStrs /\ ~RateLimitMessage(e)

\* The gateway fails with a rate-limit error exactly k times, then answers.
FailsKThenSucceeds(script, k) ==
    /\ \A j \in 1..k : RateLimitMessage(script[j])
    /\ script[k + 1] = "ok"

\* base_delay*2^0, ..., base_delay*2^(k-1)
ExpectedDelays(k) == [j \in 1..k |-> base_delay * (2 ^ (j - 1))]

IsPrefix(s, t) == Len(s) <= Len(t) /\ \A j \in 1..Len(s) : s[j] = t[j]

\* C1: when the gateway fails with a rate-limit error exactly k < retries
\* times and then answers, the call never raises; it returns after exactly
\* k+1 attempts; the waits are base_delay*2^i for i = 0..k-1, each taken
\* before the attempt that follows failed attempt i, and they add up to
\* base_delay*(2^k - 1).
C1_BackoffThenSuccess ==
    \A k \in 0..(retries - 1) :
        FailsKThenSucceeds(gw_script, k) =>
            /\ rt_pc \notin {"raised", "returned_none"}
            /\ rt_attempts <= k + 1
            /\ IsPrefix(rt_sleeps, ExpectedDelays(k))
            /\ rt_pc = "try" => Len(rt_sleeps) = rt_attempts
            /\ rt_pc = "sleep" => Len(rt_sleeps) = rt_attempts - 1
            /\ rt_pc = "returned" =>
                /\ rt_attempts = k + 1
                /\ rt_sleeps = ExpectedDelays(k)
                /\ SumSeq(rt_sleeps) = base_delay * ((2 ^ k) - 1)

\* Three rate-limit failures, then the answer: returned after 4 attempts,
\* having waited 10, 20 and 40.
C1_Witness ==
    /\ FailsKThenSucceeds(gw_script, 3)
    /\ rt_pc = "returned"
    /\ rt_attempts = 4
    /\ rt_sleeps = <<10, 20, 40>>

\* The gateway fails with a rate-limit error on each of the first `retries`
\* invocations.
AlwaysRateLimited(script) == \A j \in 1..retries : RateLimitMessage(script[j])

\* C2: when every attempt fails with a rate-limit error, the call makes
\* exactly `retries` attempts, raises the rate-limit error of the last one
\* right after it, never attempts again and never returns.
C2_ExhaustionRaises ==
    AlwaysRateLimited(gw_script) =>
        /\ rt_attempts <= retries
        /\ rt_pc \notin {"returned", "returned_none"}
        /\ rt_attempts = retries => rt_pc = "raised"
        /\ rt_pc = "raised" =>
            /\ rt_attempts = retries
            /\ rt_err = gw_script[retries]
            /\ RateLimitMessage(rt_err)

\* The sixth rate-limit failure has been raised, after five waits.
C2_Witness ==
    /\ AlwaysRateLimited(gw_script)
    /\ rt_pc = "raised"
    /\ rt_attempts = retries
    /\ Len(rt_sleeps) = retries - 1

\* C3: an error that is not a rate-limit error is never retried: the attempt
\* it occurs on is the last one, the error is raised to the caller, and no
\* wait follows it.
C3_OtherErrorsNotRetried ==
    \A j \in 1..rt_attempts :
        OtherErrorMessage(gw_script[j]) =>
            /\ rt_pc = "raised"
            /\ rt_err = gw_script[j]
            /\ rt_attempts = j
            /\ Len(rt_sleeps) = j - 1

\* Two rate-limit failures, then a 503 on the third attempt: raised at once.
C3_Witness ==
    /\ rt_pc = "raised"
    /\ rt_attempts = 3
    /\ OtherErrorMessage(rt_err)
    /\ Len(rt_sleeps) = 2

-----------------------------------------------------------------------------
(* Properties of the turn pipeline, checked under Spec                      *)

Last(seq) == seq[Len(seq)]

TurnOver == pc = "idle" /\ outcome \notin {"none", "aborted"}

\* The titles of the recorded angles, in order.
RecordedTitles == [j \in 1..Len(angles_data) |-> angles_data[j].title]

\* The angles the log calls recorded, in order.
LoggedRecorded ==
    SelectSeq([i \in 1..Len(angle_log) |-> i], LAMBDA i : angle_log[i] = "recorded")

\* C4: in analysis mode an exception raised by an angle's program never
\* escapes the angle: no system error comes of it, the loop goes on to the
\* next angle until every angle of the plan was processed, the failing
\* angle has no record, and the records are exactly those of the angles
\* that were recorded, in plan order.  For a plan of 3 angles of which only
\* angle 2 raises, the report holds the records of angles 1 and 3 and an
\* insight built from those two.
C4_AngleExceptionAbsorbed ==
    /\ (plan_json.kind = "dict" /\ plan_json.has_angles /\ outcome = "system_error") =>
          /\ sys_error \in ErrorStrs
          /\ Last(calls) = "final"
    /\ \A i \in 1..Len(angle_log) :
          angle_log[i] = "raised" =>
              \A j \in 1..Len(angles_data) : angles_data[j].title # i
    /\ pc \in {"angle_exec", "angle_narrate"} => angle_i = Len(angle_log) + 1
    /\ (TurnOver /\ plan_json.has_angles) => Len(angle_log) = plan_json.n
    /\ RecordedTitles = LoggedRecorded
    /\ outcome = "analysis_report" =>
          /\ Last(messages).angles_data = angles_data
          /\ Last(messages).insight = RecordedTitles
    /\ (outcome = "analysis_report"
        /\ angle_log = <<"recorded", "raised", "recorded">>) =>
          /\ [j \in 1..2 |-> Last(messages).angles_data[j].title] = <<1, 3>>
          /\ Len(Last(messages).angles_data) = 2
          /\ Last(messages).insight = <<1, 3>>

\* A plan of 3 angles, angle 2 raised, and the report is in the history.
C4_Witness ==
    /\ plan_json.n = 3
    /\ angle_log = <<"recorded", "raised", "recorded">>
    /\ outcome = "analysis_report"
    /\ Last(messages).mode = "analysis"
    /\ Last(messages).insight = <<1, 3>>

\* The router answered with a label that cannot be parsed: no JSON, JSON
\* that is no object, an object without 'type'.
UnparsableLabel(text) == text \in {"not json", "[]", "{}"}

\* C5: when the router's label cannot be parsed the intent is 'analysis'
\* and the turn goes on to the analysis plan: nothing is appended, the turn
\* is neither ended nor routed to the simple or the irrelevant branch.
C5_RouterFailsOpen ==
    UnparsableLabel(router_text) =>
        /\ intent_type = "analysis"
        /\ pc = "plan"
        /\ outcome = "running"
        /\ Len(messages) = start_len
        /\ calls = <<"router">>

\* The router answered with a JSON list and the planning call is next.
C5_Witness == router_text = "[]" /\ pc = "plan" /\ intent_type = "analysis"

\* C6: when the router classifies the query as 'irrelevant' the turn is
\* over with exactly one plain-text refusal appended, the router call is the
\* only model call and no program was executed.
C6_IrrelevantRefused ==
    (router_text # "" /\ json_loads(router_text).type = "irrelevant") =>
        /\ pc = "idle"
        /\ outcome = "refusal"
        /\ Len(messages) = start_len + 1
        /\ Last(messages) = TextMsg("assistant", RefusalText)
        /\ calls = <<"router">>
        /\ n_execs = 0

\* The refusal answers a user message.
C6_Witness ==
    /\ router_text = "{type: irrelevant}"
    /\ outcome = "refusal"
    /\ Len(messages) = 2
    /\ messages[1].role = "user"
    /\ messages[2].text = RefusalText

\* The tables of an extracted value: those of a mapping, the table itself.
Tables(v) ==
    CASE v.ty = "dict" -> [j \in 1..Len(v.items) |-> v.items[j].value]
      [] v.ty = "frame" -> <<v>>
      [] OTHER -> <<>>

\* The tables the three-step policy takes from a namespace: (a) those of a
\* populated `results`, (b) else a populated `result`, (c) else the first
\* table bound under a name other than 'df'.
PolicyTables(ns) ==
    IF Truthy(ns_get(ns, "results")) THEN Tables(ns_get(ns, "results"))
    ELSE IF ns_get(ns, "result") # NoneV THEN <<ns_get(ns, "result")>>
    ELSE LET hits == {j \in 1..Len(ns) : ns[j].v.ty = "frame" /\ ns[j].k # "df"} IN
         IF hits = {} THEN <<>>
         ELSE <<ns[CHOOSE j \in hits : \A h \in hits : j <= h].v>>

InAnalysis == plan_json.kind = "dict" /\ plan_json.has_angles

\* C7 as stated: after every execution, in simple mode and in angle mode
\* alike, the extracted tables are those of the three-step policy (a), (b),
\* (c) applied to the namespace the program left.
C7_UniformPolicy ==
    (last_exec.prog \notin {"", "raise_key_error"}) =>
        Tables(last_exec.result) =
            PolicyTables(exec_program(last_exec.prog,
                            IF InAnalysis THEN angle_context ELSE simple_context).ns)

\* What simple mode reports for each program.
SimpleExpected(prog) ==
    CASE prog \in {"set_results", "set_both"} -> <<[name |-> "t1", value |-> Frame("T")]>>
      [] prog = "set_result" -> <<[name |-> "query result", value |-> Frame("T")]>>
      [] OTHER -> <<>>

\* What angle mode extracts for each program.
AngleExpected(prog) ==
    CASE prog = "set_result" -> Frame("T")
      [] prog = "set_both" -> Frame("R")
      [] prog \in {"set_results", "bind_table", "no_output", "mutate_dataset"} ->
            Frame("DF")
      [] OTHER -> NoneV

\* C7 as amended: the policy differs by mode.  Simple mode: (a) a populated
\* `results` mapping is reported; (b) otherwise a populated `result` is
\* reported as one named table; otherwise the answer is the no-data text,
\* without a scan.  Angle mode: a populated `result` is taken, whatever
\* `results` holds; otherwise the first table bound under a key other than
\* 'df', in binding order, is taken; with none, the angle has no data.
C7_PerModePolicy ==
    /\ (TurnOver /\ simple_json = "valid" /\ last_exec.prog # "raise_key_error") =>
          IF SimpleExpected(last_exec.prog) # <<>>
          THEN /\ outcome = "simple_report"
               /\ Last(messages).mode = "simple"
               /\ Last(messages).data = SimpleExpected(last_exec.prog)
          ELSE /\ outcome = "no_data"
               /\ Last(messages) = TextMsg("assistant", NoDataText)
    /\ pc = "angle_narrate" =>
          /\ last_exec.result # NoneV
          /\ last_exec.result = AngleExpected(last_exec.prog)
    /\ (InAnalysis /\ pc # "angle_narrate" /\ last_exec.prog # "") =>
          /\ AngleExpected(last_exec.prog) = NoneV
          /\ Last(angle_log) =
                IF last_exec.prog = "raise_key_error" THEN "raised" ELSE "no_data"

\* Simple mode ran a program that fills both `results` and `result`: the
\* report holds the mapping's table.
C7_Witness ==
    /\ outcome = "simple_report"
    /\ last_exec.prog = "set_both"
    /\ Last(messages).data = <<[name |-> "t1", value |-> Frame("T")]>>

\* C8 as stated: an angle program that runs without error, fills no result
\* and binds no new table has no data: no narrative call is made for it, the
\* dataset is not taken for its result, and the angle is logged without a
\* record.
C8_NoOutputIsNoData ==
    (last_exec.prog = "no_output" /\ InAnalysis) =>
        /\ pc # "angle_narrate"
        /\ last_exec.result # Frame("DF")
        /\ angle_log # <<>> /\ Last(angle_log) = "no_data"

\* The planning call returned a plan with an angle list.
UsableAngleList(pj) == pj.kind = "dict" /\ pj.has_angles

\* C9: the analysis fails (the failure text is the turn's response) exactly
\* when the planning call returned and its answer is unparsable or has no
\* angle list; then no program was executed and no narrative or synthesis
\* call was made.  Whatever becomes of the angles, a turn that processed one
\* does not fail.
C9_FailedIffNoUsablePlan ==
    /\ outcome = "plan_failed" <=>
          (plan_json.kind # "unset" /\ ~UsableAngleList(plan_json))
    /\ outcome = "plan_failed" =>
          /\ pc = "idle"
          /\ Len(messages) = start_len + 1
          /\ Last(messages) = TextMsg("assistant", PlanFailedText)
          /\ calls = <<"router", "plan">>
          /\ n_execs = 0
    /\ (n_execs > 0 /\ InAnalysis) => outcome # "plan_failed"
    /\ angle_log # <<>> => outcome # "plan_failed"

\* The plan is an object without 'angles' and the failure text answers.
C9_Witness ==
    /\ outcome = "plan_failed"
    /\ plan_json.kind = "dict"
    /\ ~plan_json.empty
    /\ Last(messages).text = PlanFailedText

\* C10 as stated: when the plan is accepted and the turn is over with no
\* angle recorded, a response other than the failure text was appended and
\* no synthesis call was made.
C10_NoFindingsRecorded ==
    (pc = "idle" /\ InAnalysis /\ Len(angle_log) = plan_json.n /\ angles_data = <<>>) =>
        /\ Len(messages) = start_len + 1
        /\ Last(messages).role = "assistant"
        /\ Last(messages) # TextMsg("assistant", PlanFailedText)
        /\ \A j \in 1..Len(calls) : calls[j] # "final"

-----------------------------------------------------------------------------
(* The final synthesis, checked under Spec                                  *)

\* The number of final synthesis calls of the pipeline run.
FinalCalls == Cardinality({j \in 1..Len(calls) : calls[j] = "final"})

\* C11: a pipeline run makes at most one final synthesis call; the call is
\* made only in analysis mode, once every angle of the plan was processed
\* and some angle was recorded, and it is the run's last call; a run that
\* processed every angle makes the call exactly when a record exists; the
\* findings handed to the call are those of the recorded angles, all of
\* them and no other, in plan order; nothing is appended to the history
\* while the run is under way, and the analysis report is there only once
\* the call has returned.
C11_SynthesisOnceAfterLastAngle ==
    /\ FinalCalls <= 1
    /\ (pc = "synthesize" \/ FinalCalls = 1) =>
          /\ InAnalysis
          /\ Len(angle_log) = plan_json.n
          /\ angles_data # <<>>
    /\ FinalCalls = 1 =>
          /\ pc = "idle"
          /\ Last(calls) = "final"
          /\ final_findings = RecordedTitles
          /\ final_findings = LoggedRecorded
          /\ \A j \in 1..Len(angles_data) : angles_data[j].explanation = final_findings[j]
    /\ (TurnOver /\ InAnalysis /\ Len(angle_log) = plan_json.n) =>
          (FinalCalls = 1 <=> angles_data # <<>>)
    /\ pc # "idle" => Len(messages) = start_len
    /\ outcome = "analysis_report" <=>
          (pc = "idle" /\ Len(messages) = start_len + 1 /\ start_len > 0
           /\ Last(messages).mode = "analysis")
    /\ outcome = "analysis_report" =>
          /\ FinalCalls = 1
          /\ Last(messages) = AnalysisReport(angles_data, final_findings)

\* A plan of three angles of which the second has no record: the synthesis
\* was called on the findings of angles 1 and 3 and the report is stored.
C11_Witness ==
    /\ outcome = "analysis_report"
    /\ plan_json.n = 3
    /\ angle_log[2] # "recorded"
    /\ final_findings = <<1, 3>>
    /\ Last(calls) = "final"
    /\ Last(messages).insight = <<1, 3>>

-----------------------------------------------------------------------------
(* Properties of analyze_time_structure, checked under SpecPure             *)

Range(seq) == {seq[j] : j \in 1..Len(seq)}

\* The labels of seq are in strictly ascending string order.
Ascending(seq) == \A i, j \in 1..Len(seq) : i < j => StrLess(seq[i], seq[j])

\* Every label of S sorts before every label of T.
AllBefore(S, T) == \A a \in S, b \in T : StrLess(a, b)

\* analyze_time_structure has returned the windows of a detected period column.
WindowsReturned == time_context.kind = "windows"

\* The period column of the dataset 2023Q1..2024Q4.
EightQuarters == {Quarter(y, q) : y \in {2023, 2024}, q \in 1..4}

\* C12: for a dataset with a detected period column, MAT is the last four
\* of the sorted distinct labels: four labels (all of them when there are
\* fewer than four), ascending, every other label sorting before them.  With
\* eight or more distinct labels MAT-prior is the four labels next below MAT
\* and the completeness flag is true; with fewer than four MAT is the whole
\* set of labels and the flag is false.  For 2023Q1..2024Q4 MAT is
\* 2024Q1, 2024Q2, 2024Q3, 2024Q4.
C12_MatWindows ==
    WindowsReturned =>
        LET n == Cardinality(df.periods)
            mat == time_context.mat_list
            prior == time_context.mat_list_prior
        IN
        /\ Len(mat) = (IF n < 4 THEN n ELSE 4)
        /\ Ascending(mat)
        /\ Range(mat) \subseteq df.periods
        /\ AllBefore(df.periods \ Range(mat), Range(mat))
        /\ n >= 8 =>
              /\ Len(prior) = 4
              /\ prior # <<>>
              /\ Ascending(prior)
              /\ Range(prior) \subseteq df.periods \ Range(mat)
              /\ AllBefore(Range(prior), Range(mat))
              /\ AllBefore(df.periods \ (Range(prior) \cup Range(mat)), Range(prior))
              /\ time_context.is_mat_complete = TRUE
        /\ n < 4 =>
              /\ Range(mat) = df.periods
              /\ time_context.is_mat_complete = FALSE
        /\ df.periods = EightQuarters =>
              mat = <<Quarter(2024, 1), Quarter(2024, 2), Quarter(2024, 3), Quarter(2024, 4)>>

\* The windows of the dataset 2023Q1..2024Q4 have been computed.
C12_Witness ==
    /\ WindowsReturned
    /\ df.periods = EightQuarters
    /\ time_context.mat_list =
          <<Quarter(2024, 1), Quarter(2024, 2), Quarter(2024, 3), Quarter(2024, 4)>>
    /\ time_context.mat_list_prior =
          <<Quarter(2023, 1), Quarter(2023, 2), Quarter(2023, 3), Quarter(2023, 4)>>
    /\ time_context.is_mat_complete

\* The label of the same quarter one year earlier.
PriorYearLabel(l) == Quarter(l.year - 1, l.q)

\* C13: every YTD-prior label is a label of the dataset, listed once, and is
\* the prior-year counterpart of exactly one YTD label, so that YTD-prior is
\* no longer than YTD; YTD-prior is exactly the counterparts of the YTD
\* labels that the dataset holds: a YTD label whose counterpart is absent
\* contributes nothing and no label is made up.
C13_YtdPriorFromDataset ==
    WindowsReturned =>
        LET ytd == time_context.ytd_list
            prior == time_context.ytd_list_prior
        IN
        /\ Range(prior) \subseteq df.periods
        /\ Cardinality(Range(prior)) = Len(prior)
        /\ \A p \in Range(prior) :
              Cardinality({j \in 1..Len(ytd) : PriorYearLabel(ytd[j]) = p}) = 1
        /\ Len(prior) <= Len(ytd)
        /\ Range(prior) = {PriorYearLabel(y) : y \in Range(ytd)} \cap df.periods
        /\ \A y \in Range(ytd) :
              PriorYearLabel(y) \notin df.periods => PriorYearLabel(y) \notin Range(prior)

\* 2024Q1 has its counterpart 2023Q1 in the dataset, 2024Q2 has none.
C13_Witness ==
    /\ WindowsReturned
    /\ df.periods = {Quarter(2023, 1), Quarter(2024, 1), Quarter(2024, 2)}
    /\ time_context.ytd_list = <<Quarter(2024, 1), Quarter(2024, 2)>>
    /\ time_context.ytd_list_prior = <<Quarter(2023, 1)>>

-----------------------------------------------------------------------------
(* Turns on a dataset without a period column, checked under Spec           *)

\* No column of the dataset passes the period heuristic.
NoPeriodColumn == ~detect_time_col(df)

\* The window bindings of a namespace.
WindowKeys ==
    {"current_mat", "mat_list", "prior_mat", "mat_list_prior", "ytd_list", "ytd_list_prior"}

\* What a turn can raise to the turn handler when the windows are there.
OrdinaryErrors == ErrorStrs \cup {"JSONDecodeError", "KeyError"}

\* C14: on a dataset without a period column analyze_time_structure has
\* returned the error value, which holds no window; the lookups of a turn
\* raise nothing and find no window, the programs' namespaces bind every
\* window name to None, and a turn never ends in a system error of the
\* missing windows: the system errors are those a turn can have anyway, and
\* one met right after the routing call is that call's own failure.
C14_MissingWindowsDegrade ==
    NoPeriodColumn =>
        /\ time_context = ErrorContext
        /\ time_context.mat_list = <<>> /\ time_context.ytd_list = <<>>
        /\ lookup_windows(time_context) =
              [exc |-> "", mat_list |-> NoneV, mat_list_prior |-> NoneV,
               ytd_list |-> NoneV, ytd_list_prior |-> NoneV]
        /\ \A k \in WindowKeys :
              /\ HasKey(simple_context, k) /\ ns_get(simple_context, k) = NoneV
              /\ HasKey(angle_context, k) /\ ns_get(angle_context, k) = NoneV
        /\ outcome = "system_error" => sys_error \in OrdinaryErrors
        /\ (outcome = "system_error" /\ calls = <<"router">>) => sys_error \in ErrorStrs

\* Without a period column a turn went through routing, planning, the
\* execution and narration of two angles and the final synthesis.
C14_Witness ==
    /\ NoPeriodColumn
    /\ time_context = ErrorContext
    /\ outcome = "analysis_report"
    /\ calls = <<"router", "plan", "mini", "mini", "final">>
    /\ n_execs = 2
    /\ Len(Last(messages).angles_data) = 2

-----------------------------------------------------------------------------
(* The turn handler and the session state, checked under SpecSession        *)

\* The session state a turn could corrupt.
SessionState == <<messages, last_query_draft, is_interrupted>>

\* A step of a pipeline run that does not end it with a response, an abort
\* or a reset.
QuietPipelineStep ==
    /\ pc # "idle"
    /\ outcome' \in {"running", "system_error"}

\* C15: a turn that ended in a system error shows exactly one error, has
\* left the pipeline (no further stage of it starts), and has left the
\* session state as it was when the turn started: the history still ends
\* with the turn's question, nothing was appended, the interrupt flag is
\* clear and no step of the run touched the history, the draft or the flag;
\* so the chat input accepts the next question, which starts a new run.
C15_SystemErrorLeavesSession ==
    /\ [](outcome = "system_error" =>
            /\ pc = "idle"
            /\ sys_error \in OrdinaryErrors
            /\ Len(messages) = start_len
            /\ Last(messages).role = "user"
            /\ ~is_interrupted
            /\ (UserCount(messages) < UserBudget => ENABLED ChatInput))
    /\ [](outcome # "system_error" => sys_error = "")
    /\ [][QuietPipelineStep => UNCHANGED SessionState]_vars
    /\ [][(outcome = "system_error" /\ ChatInput) =>
            (pc' = "route" /\ Len(messages') = Len(messages) + 1)]_vars

\* The simple-mode program raised: the turn is over with that one error and
\* the history holds the question alone.
C15_Witness ==
    /\ outcome = "system_error"
    /\ sys_error = "KeyError"
    /\ last_exec.prog = "raise_key_error"
    /\ calls = <<"router", "simple">>
    /\ Len(messages) = 1
    /\ scope = "session"

-----------------------------------------------------------------------------
(* Exhausted retries inside a turn, checked under Spec                      *)

\* C16 as stated: when a model call of a turn has exhausted its retries the
\* turn is over with the rate-limit error as its system error, no later
\* stage was started and no report was produced.  For the per-angle
\* narrative call: once the log holds an exhausted narration, that angle is
\* the last one processed, no synthesis call was made and the turn ended in
\* the system error.
C16_ExhaustionEndsTurn ==
    /\ (outcome = "system_error" /\ IsRateLimit(sys_error)) =>
          /\ pc = "idle"
          /\ Len(messages) = start_len
    /\ \A i \in 1..Len(angle_log) :
          angle_log[i] = "narration_exhausted" =>
              /\ Len(angle_log) = i
              /\ pc = "idle"
              /\ outcome = "system_error"
              /\ IsRateLimit(sys_error)
              /\ FinalCalls = 0

-----------------------------------------------------------------------------
(* Abort, checked under Spec                                                *)

\* C17 as stated: an abort sets the interrupt flag; while the flag is set no
\* stage of any turn is under way; and the aborted run started no model call
\* and no program execution after the abort.
C17_AbortStartsNoStage ==
    /\ outcome = "aborted" => is_interrupted
    /\ is_interrupted => pc = "idle"
    /\ outcome = "aborted" => after_abort = <<>>

-----------------------------------------------------------------------------
(* The stored history, checked under SpecSession                            *)

\* C18: every step other than the reset keeps the stored history as a
\* prefix of the new one and appends at most one message (submit,
\* suggestion, resubmit after an abort, abort, the stages of a turn, its end
\* or failure, building the digest of line 489); a step that does not is the
\* reset, and the reset leaves an empty history, an empty draft and a clear
\* interrupt flag.
C18_HistoryAppendOnly ==
    /\ [][\/ IsPrefix(messages, messages') /\ Len(messages') <= Len(messages) + 1
          \/ Reset]_vars
    /\ [][Reset => (messages' = <<>> /\ last_query_draft' = "" /\ is_interrupted' = FALSE)]_vars
    /\ [][(history_context_str' # history_context_str /\ history_context_str' # NoDigest) =>
            IsPrefix(messages, messages')]_vars

\* A first turn was answered with a report, a second question was asked and
\* its run aborted: the three messages are stored in order.
C18_Witness ==
    /\ Len(messages) = 3
    /\ messages[1].role = "user"
    /\ messages[2].mode = "simple"
    /\ messages[3].role = "user"
    /\ is_interrupted
    /\ outcome = "aborted"

-----------------------------------------------------------------------------
(* A malformed simple-mode synthesis response, checked under Spec           *)

\* The synthesis response is no JSON, or is an object without 'code'.
MalformedSimpleJson == simple_json \in {"invalid", "no_code"}

-----------------------------------------------------------------------------
(* Properties of normalize_result, checked under SpecPure                   *)

\* normalize_result has returned.
Normalized == nr_out # NotReturned

\* C20 as stated: whatever the argument (a table, a series, a mapping, any
\* other value), the value returned is a table with at least one row and at
\* least one column.
C20_TableWithRowAndColumn ==
    Normalized =>
        /\ IsDataFrame(nr_out)
        /\ nr_out.rows >= 1
        /\ nr_out.cols >= 1

\* C21: normalize_result applied to what it returned gives that value
\* again, whatever the argument was: the value returned is a table, and a
\* table passes through unchanged.
C21_NormalizeIdempotent ==
    Normalized =>
        /\ nr_out = normalize_result(nr_res)
        /\ IsDataFrame(nr_out)
        /\ normalize_result(nr_out) = nr_out
        /\ normalize_result(normalize_result(nr_res)) = normalize_result(nr_res)
        /\ IsDataFrame(nr_res) => nr_out = nr_res

\* A mapping of three items was normalized into a table of three rows and
\* two columns, which is not the argument.
C21_Witness ==
    /\ Normalized
    /\ nr_res.ty = "dict"
    /\ nr_out = Table("items", 3, 2)
    /\ nr_out # nr_res

\* C22 as stated: each execution gets a freshly built namespace (an empty
\* result slot, no variable bound by an earlier program), and what an
\* earlier angle's program did to the dataset is not observable by the
\* program of a later angle: every program starts on the dataset as loaded,
\* and no angle mutates it.
C22_NoLeakBetweenExecutions ==
    /\ pc \in {"simple", "angle_exec"} =>
          /\ ns_get(angle_context, "result") = NoneV
          /\ ns_get(simple_context, "results") = Dict(<<>>)
          /\ ~HasKey(angle_context, "tmp") /\ ~HasKey(simple_context, "tmp")
          /\ df_obj = "loaded"
    /\ InAnalysis => df_obj = "loaded"

\* C23 as stated: an open-analysis turn runs between 2 and 5 angles: the
\* angle loop is entered only with a plan of 2 to 5 angles, and a turn that
\* went through the loop processed 2 to 5 of them.
C23_TwoToFiveAngles ==
    /\ (InAnalysis /\ angle_i > 0) => (plan_json.n >= 2 /\ plan_json.n <= 5)
    /\ (InAnalysis /\ outcome \in {"analysis_report", "no_response"}) =>
          (Len(angle_log) >= 2 /\ Len(angle_log) <= 5)

\* C24: with 4 to 7 distinct period labels MAT-prior is exactly the labels
\* preceding MAT, in order (none when there are exactly 4), and the
\* completeness flag is false.  In every case the labels of MAT, MAT-prior,
\* YTD and YTD-prior are distinct values of the period column, each window
\* is in ascending order, and MAT-prior is disjoint from MAT, each of its
\* labels sorting before each label of MAT.
C24_ShortHistoryWindows ==
    WindowsReturned =>
        LET n == Cardinality(df.periods)
            mat == time_context.mat_list
            prior == time_context.mat_list_prior
            ytd == time_context.ytd_list
            ytd_prior == time_context.ytd_list_prior
        IN
        /\ (n >= 4 /\ n <= 7) =>
              /\ prior \o mat = sorted(df.periods)
              /\ Len(prior) = n - 4
              /\ Range(prior) = df.periods \ Range(mat)
              /\ n = 4 => prior = <<>>
              /\ time_context.is_mat_complete = FALSE
        /\ \A w \in {mat, prior, ytd, ytd_prior} :
              /\ Range(w) \subseteq df.periods
              /\ Ascending(w)
        /\ Range(mat) \cap Range(prior) = {}
        /\ AllBefore(Range(prior), Range(mat))

\* Six labels, 2023Q3..2024Q4: MAT-prior is 2023Q3, 2023Q4 and the flag is
\* false.
C24_Witness ==
    /\ WindowsReturned
    /\ df.periods = {Quarter(2023, 3), Quarter(2023, 4)}
                        \cup {Quarter(2024, q) : q \in 1..4}
    /\ time_context.mat_list_prior = <<Quarter(2023, 3), Quarter(2023, 4)>>
    /\ time_context.is_mat_complete = FALSE

-----------------------------------------------------------------------------
(* The angle loop, checked under Spec                                       *)

\* The number of narrative calls of the pipeline run.
NarrativeCalls == Cardinality({j \in 1..Len(calls) : calls[j] = "mini"})

\* The angles processed so far whose program produced a table.
TableAngles ==
    {i \in 1..Len(angle_log) :
        angle_log[i] \in {"recorded", "narration_exhausted", "narration_failed"}}

\* The angles are processed one after another in plan order; the narrative
\* call of an angle follows a program that produced a table, one call for
\* each such angle; the records are those of the angles whose program
\* produced a table and whose narrative call returned, in plan order.
AngleLoopInOrder ==
    /\ pc \in {"angle_exec", "angle_narrate"} =>
          /\ InAnalysis
          /\ angle_i = Len(angle_log) + 1
          /\ angle_i <= plan_json.n
    /\ pc = "angle_narrate" =>
          /\ IsDataFrame(last_exec.result)
          /\ NarrativeCalls = Cardinality(TableAngles)
    /\ InAnalysis =>
          /\ Len(angle_log) <= plan_json.n
          /\ NarrativeCalls = Cardinality(TableAngles)
          /\ RecordedTitles = LoggedRecorded
          /\ \A j \in 1..Len(angles_data) : IsDataFrame(angles_data[j].data)
    /\ NarrativeCalls > 0 => InAnalysis

\* A step that changes the records appends the record of the angle being
\* narrated (or starts afresh: a new pipeline run, an abort, a reset); a step
\* that changes the angle index moves to the next angle.
RecordsAppendOnly ==
    /\ (angles_data' # angles_data /\ angles_data' # <<>>) =>
          /\ pc = "angle_narrate"
          /\ angles_data' = Append(angles_data, Last(angles_data'))
          /\ Last(angles_data').title = angle_i
          /\ Last(angles_data').data = last_exec.result
    /\ (angle_i' # angle_i /\ angle_i' # 0) => angle_i' = angle_i + 1

-----------------------------------------------------------------------------
(* Properties of get_history_context, checked under SpecPure                *)

\* get_history_context has returned the digest of the stored history.
Digested == history_context_str # NoDigest

\* C26: the digest of a history of at most one message is the 'no history'
\* marker; otherwise it holds one line for each of the most recent messages
\* that precede the current (last) one, at most 2*turn_limit = 6 of them, in
\* their original order, and never a line for the current message; building
\* it leaves the stored history as it was.
C26_BoundedDigest ==
    /\ [](Digested =>
            LET n == Len(messages)
                d == history_context_str
                k == Len(d.lines)
            IN
            /\ n <= 1 => d = NoHistory
            /\ n > 1 =>
                  /\ d # NoHistory
                  /\ k = (IF n - 1 < 2 * turn_limit THEN n - 1 ELSE 2 * turn_limit)
                  /\ k <= 6
                  /\ \A j \in 1..k : d.lines[j] = digest_line(messages[n - 1 - k + j])
                  /\ d.lines = [j \in 1..k |->
                                   digest_line(SubSeq(messages, n - k, n - 1)[j])])
    /\ [][history_context_str' # history_context_str => messages' = messages]_vars

\* A history of eight messages: the digest holds the six that precede the
\* current one, from the second on.
C26_Witness ==
    /\ Digested
    /\ Len(messages) = 8
    /\ Len(history_context_str.lines) = 6
    /\ messages[1] # messages[2]
    /\ history_context_str.lines[1] = digest_line(messages[2])
    /\ messages[7] # messages[8]
    /\ history_context_str.lines[6] = digest_line(messages[7])

-----------------------------------------------------------------------------
(* Re-evaluations of the script, checked under Spec                         *)

\* C27 as stated: the pipeline starts only in a step that appends a new
\* user message; once a turn is over, however it ended, no later
\* re-evaluation of the script starts the pipeline for the same message.
C27_OnceForEachMessage ==
    [][(pc = "idle" /\ pc' = "route") =>
          /\ Len(messages') = Len(messages) + 1
          /\ Last(messages').role = "user"]_vars

-----------------------------------------------------------------------------
(* The draft of an aborted message, checked under SpecSession               *)

\* C28 as stated: whenever the interrupt flag is set the draft offered for
\* editing is the text of the aborted (last) user message, however that
\* message was submitted; a resubmit of non-empty text appends it as a new
\* user message and clears the flag and the draft; a resubmit of empty text
\* changes nothing.
C28_DraftIsAbortedMessage ==
    /\ [](is_interrupted =>
            /\ messages # <<>>
            /\ Last(messages).role = "user"
            /\ last_query_draft = Last(messages).text)
    /\ [][(is_interrupted /\ messages' # messages /\ messages' # <<>>) =>
            /\ messages' = Append(messages, Last(messages'))
            /\ Last(messages').role = "user"
            /\ Last(messages').text # ""
            /\ ~is_interrupted'
            /\ last_query_draft' = ""]_vars

====
